---- MODULE Spec2Model ----
(***************************************************************************)
(* A model of UbuntuImageFetcher (src/ubuntu_image_fetcher.py): the        *)
(* fetch - validate - dedupe - persist pipeline of fetch_image, the hash   *)
(* index built by _load_existing_hashes, and the storage directory.        *)
(*                                                                         *)
(* Text (URLs, header values, file names) is a sequence of one-character   *)
(* strings; a byte is an integer 0..255.                                   *)
(***************************************************************************)
EXTENDS Integers, Sequences, FiniteSets, TLC

VARIABLES
    base_dir,           \* self.base_dir.name, the name of the storage directory
    dir_exists,         \* base_dir exists on disk
    files,              \* the regular files under base_dir (recursively)
    downloaded_hashes,  \* self.downloaded_hashes
    checked,            \* history: the bodies _check_duplicate was called on, this instance
    call                \* the last operation: its inputs, as far as read, and its outcome

vars == <<base_dir, dir_exists, files, downloaded_hashes, checked, call>>

-----------------------------------------------------------------------------
(* Python's str and bytes operations used by the source *)

LowerLetters == <<"a","b","c","d","e","f","g","h","i","j","k","l","m",
                  "n","o","p","q","r","s","t","u","v","w","x","y","z">>
UpperLetters == <<"A","B","C","D","E","F","G","H","I","J","K","L","M",
                  "N","O","P","Q","R","S","T","U","V","W","X","Y","Z">>
Digits == <<"0","1","2","3","4","5","6","7","8","9">>

Range(s) == {s[i] : i \in 1..Len(s)}

IndexIn(s, c) == CHOOSE i \in 1..Len(s) : s[i] = c

\* str.lower(), on one character and on a string
UpperSet == Range(UpperLetters)
AlnumSet == Range(LowerLetters) \cup Range(UpperLetters) \cup Range(Digits)
DigitSet == Range(Digits)

LowerChar(c) ==
    IF c \in UpperSet THEN LowerLetters[IndexIn(UpperLetters, c)] ELSE c

Lower(s) == [i \in 1..Len(s) |-> LowerChar(s[i])]

\* str.isalnum() of one character
IsAlnum(c) == c \in AlnumSet

\* s.startswith(p), for str and for bytes
StartsWith(s, p) == Len(p) <= Len(s) /\ SubSeq(s, 1, Len(p)) = p

\* s[from:] and s[:to] with 1-based, inclusive positions
Drop(s, n) == SubSeq(s, n + 1, Len(s))
Take(s, n) == SubSeq(s, 1, IF n < Len(s) THEN n ELSE Len(s))

\* s.find(c, from): the first position >= from holding c, 0 when there is none
Find(s, c, from) ==
    LET hits == {i \in from..Len(s) : s[i] = c}
    IN  IF hits = {} THEN 0 ELSE CHOOSE i \in hits : \A j \in hits : i <= j

\* s.rfind(c): the last position holding c, 0 when there is none
RFind(s, c) ==
    LET hits == {i \in 1..Len(s) : s[i] = c}
    IN  IF hits = {} THEN 0 ELSE CHOOSE i \in hits : \A j \in hits : j <= i

\* the first position >= from holding any character of cs, 0 when there is none
FindAny(s, cs, from) ==
    LET hits == {i \in from..Len(s) : s[i] \in cs}
    IN  IF hits = {} THEN 0 ELSE CHOOSE i \in hits : \A j \in hits : i <= j

\* s.replace(old, ""): every non-overlapping occurrence of old removed, left to right
RECURSIVE RemoveAll(_, _)
RemoveAll(s, old) ==
    IF s = <<>> THEN <<>>
    ELSE IF StartsWith(s, old) THEN RemoveAll(Drop(s, Len(old)), old)
    ELSE <<Head(s)>> \o RemoveAll(Tail(s), old)

\* s.split(c)[0]
SplitFirst(s, c) == IF Find(s, c, 1) = 0 THEN s ELSE Take(s, Find(s, c, 1) - 1)

\* s.strip() of spaces, as int() does to its argument
RECURSIVE LStrip(_)
LStrip(s) == IF s # <<>> /\ Head(s) = " " THEN LStrip(Tail(s)) ELSE s

RECURSIVE RStrip(_)
RStrip(s) == IF s # <<>> /\ s[Len(s)] = " " THEN RStrip(Take(s, Len(s) - 1)) ELSE s

\* the digits of int(text): text stripped, an optional sign removed
IntDigits(text) ==
    LET t == RStrip(LStrip(text))
    IN  IF t # <<>> /\ Head(t) \in {"+", "-"} THEN Tail(t) ELSE t

\* int(text) raises ValueError (underscore grouping is not in the model's inputs)
IntRaises(text) ==
    LET d == IntDigits(text) IN d = <<>> \/ \E i \in 1..Len(d) : d[i] \notin DigitSet

RECURSIVE DigitsValue(_)
DigitsValue(d) ==
    IF d = <<>> THEN 0
    ELSE 10 * DigitsValue(Take(d, Len(d) - 1)) + (IndexIn(Digits, d[Len(d)]) - 1)

\* int(text), where it does not raise
IntValue(text) ==
    LET t == RStrip(LStrip(text))
    IN  IF t # <<>> /\ Head(t) = "-" THEN 0 - DigitsValue(IntDigits(text))
        ELSE DigitsValue(IntDigits(text))

\* str(n) for n >= 0, as the f-string formats the timestamp and the counter
RECURSIVE IntToText(_)
IntToText(n) ==
    IF n < 10 THEN <<Digits[n + 1]>>
    ELSE IntToText(n \div 10) \o <<Digits[(n % 10) + 1]>>

-----------------------------------------------------------------------------
(* urllib.parse.urlparse, os.path.basename, pathlib, mimetypes *)

\* urlparse(url).netloc and .path of a URL "scheme://netloc/path;params?query#fragment"
UrlAfterScheme(url) == Drop(url, Find(url, ":", 1))

UrlNetloc(url) ==
    LET rest == UrlAfterScheme(url)
        r2   == Drop(rest, 2)
        d    == FindAny(r2, {"/", "?", "#"}, 1)
    IN  IF ~StartsWith(rest, <<"/", "/">>) THEN <<>>
        ELSE IF d = 0 THEN r2 ELSE Take(r2, d - 1)

UrlPath(url) ==
    LET rest   == UrlAfterScheme(url)
        r2     == Drop(rest, 2)
        d      == FindAny(r2, {"/", "?", "#"}, 1)
        tail   == IF ~StartsWith(rest, <<"/", "/">>) THEN rest
                  ELSE IF d = 0 THEN <<>> ELSE Drop(r2, d - 1)
        noFrag == SplitFirst(tail, "#")
        noQry  == SplitFirst(noFrag, "?")
        slash  == RFind(noQry, "/")
        semi   == Find(noQry, ";", IF slash = 0 THEN 1 ELSE slash)
    IN  IF semi = 0 THEN noQry ELSE Take(noQry, semi - 1)

\* os.path.basename(path)
Basename(path) == Drop(path, RFind(path, "/"))

\* PurePath.suffix and PurePath.stem of a file name
Suffix(name) ==
    LET i == RFind(name, ".")
    IN  IF 0 < i - 1 /\ i < Len(name) THEN Drop(name, i - 1) ELSE <<>>

Stem(name) ==
    LET i == RFind(name, ".")
    IN  IF 0 < i - 1 /\ i < Len(name) THEN Take(name, i - 1) ELSE name

\* mimetypes.guess_extension(type): the type is lower-cased, not stripped;
\* <<>> stands for None (line 90 tests only its truth value)
GuessExtension(type) ==
    LET t == Lower(type)
    IN  IF t = <<"i","m","a","g","e","/","j","p","e","g">> THEN <<".","j","p","g">>
        ELSE IF t = <<"i","m","a","g","e","/","p","n","g">> THEN <<".","p","n","g">>
        ELSE IF t = <<"i","m","a","g","e","/","g","i","f">> THEN <<".","g","i","f">>
        ELSE IF t = <<"i","m","a","g","e","/","b","m","p">> THEN <<".","b","m","p">>
        ELSE IF t = <<"t","e","x","t","/","h","t","m","l">> THEN <<".","h","t","m","l">>
        ELSE <<>>

-----------------------------------------------------------------------------
(* Bytes: a body is `head` followed by `fill` zero bytes *)

EmptyBody == [head |-> <<>>, fill |-> 0]

BodySize(content) == Len(content.head) + content.fill

\* content[:n]
RECURSIVE Zeros(_)
Zeros(n) == IF n <= 0 THEN <<>> ELSE <<0>> \o Zeros(n - 1)

BodyPrefix(content, n) ==
    IF Len(content.head) >= n THEN Take(content.head, n)
    ELSE content.head \o Zeros(IF content.fill < n - Len(content.head)
                               THEN content.fill ELSE n - Len(content.head))

\* hashlib.md5(content).hexdigest(): a digest that is a function of the bytes alone.
\* The model computes a 16-bit positional checksum in its place.
RECURSIVE WeightedSum(_)
WeightedSum(bytes) ==
    IF bytes = <<>> THEN 0
    ELSE WeightedSum(Take(bytes, Len(bytes) - 1)) + Len(bytes) * bytes[Len(bytes)]

MD5(content) == (WeightedSum(content.head) + 7 * BodySize(content)) % 65536

-----------------------------------------------------------------------------
(* Exceptions: the classes fetch_image can meet and its except clauses *)

\* the direct base classes of each exception class (requests.exceptions, builtins)
Bases(cls) ==
    CASE cls = "ConnectTimeout"        -> {"ConnectionError", "Timeout"}
      [] cls = "ReadTimeout"           -> {"Timeout"}
      [] cls = "Timeout"               -> {"RequestException"}
      [] cls = "ConnectionError"       -> {"RequestException"}
      [] cls = "HTTPError"             -> {"RequestException"}
      [] cls = "TooManyRedirects"      -> {"RequestException"}
      [] cls = "ChunkedEncodingError"  -> {"RequestException"}
      [] cls = "RequestException"      -> {"OSError"}
      [] cls = "PermissionError"       -> {"OSError"}
      [] cls = "OSError"               -> {"Exception"}
      [] cls = "ValueError"            -> {"Exception"}
      [] OTHER                         -> {}

\* issubclass(cls, base)
RECURSIVE IsSubclass(_, _)
IsSubclass(cls, base) ==
    cls = base \/ \E b \in Bases(cls) : IsSubclass(b, base)

\* the except clauses without the closing `except Exception`
ExceptClauses_NoCatchAll ==
    << [catches |-> "Timeout",          outcome |-> "timeout"],
       [catches |-> "ConnectionError",  outcome |-> "connection-error"],
       [catches |-> "HTTPError",        outcome |-> "http-error"],
       [catches |-> "RequestException", outcome |-> "generic-request-error"] >>

\* the except clauses of fetch_image in source order, each with the outcome it reports
ExceptClauses ==
    << [catches |-> "Timeout",          outcome |-> "timeout"],
       [catches |-> "ConnectionError",  outcome |-> "connection-error"],
       [catches |-> "HTTPError",        outcome |-> "http-error"],
       [catches |-> "RequestException", outcome |-> "generic-request-error"],
       [catches |-> "Exception",        outcome |-> "unexpected-error"] >>

\* the first clause that catches an exception of class cls, 0 when none does
HandlerOf(cls) ==
    LET hits == {i \in 1..Len(ExceptClauses) : IsSubclass(cls, ExceptClauses[i].catches)}
    IN  IF hits = {} THEN 0 ELSE CHOOSE i \in hits : \A j \in hits : i <= j

-----------------------------------------------------------------------------
(* The response and _validate_image_response *)

CT == <<"c","o","n","t","e","n","t","-","t","y","p","e">>
CL == <<"c","o","n","t","e","n","t","-","l","e","n","g","t","h">>
ImagePrefix == <<"i","m","a","g","e","/">>

\* response.headers.get(name, default): headers is a function from the names present
HeaderGet(headers, name, default) ==
    IF name \in DOMAIN headers THEN headers[name] ELSE default

MaxImageBytes == 50 * 1024 * 1024

image_signatures ==
    << <<255, 216, 255>>,                       \* JPEG
       <<137, 80, 78, 71, 13, 10, 26, 10>>,     \* PNG
       <<71, 73, 70, 56, 55, 97>>,              \* GIF87a
       <<71, 73, 70, 56, 57, 97>>,              \* GIF89a
       <<66, 77>>,                              \* BM
       <<82, 73, 70, 70>> >>                    \* RIFF

NoException == "None"

Verdict(raised, valid, message) ==
    [raised |-> raised, valid |-> valid, message |-> message]

\* the Content-Type check with the default of line 139 for a missing header
ContentTypeOk_DefaultJpeg(headers) ==
    StartsWith(Lower(HeaderGet(headers, CT, <<"i","m","a","g","e","/","j","p","e","g">>)),
               ImagePrefix)

\* lines 57-59: the Content-Type check
ContentTypeOk(headers) ==
    StartsWith(Lower(HeaderGet(headers, CT, <<>>)), ImagePrefix)

\* line 63, `content_length and ...`: the header is present and not empty
ContentLengthGiven(headers) ==
    CL \in DOMAIN headers /\ headers[CL] # <<>>

\* line 63: the declared length is over the limit
TooLarge_Inclusive(content_length) == IntValue(content_length) >= MaxImageBytes

TooLarge(content_length) == IntValue(content_length) > MaxImageBytes

\* the signature check on response.content[:4]
SignatureOk_FourBytes(content) ==
    LET content_start == BodyPrefix(content, 4)
    IN  \E i \in 1..Len(image_signatures) : StartsWith(content_start, image_signatures[i])

\* lines 67-76: the signature check on response.content[:10]
SignatureOk(content) ==
    LET content_start == BodyPrefix(content, 10)
    IN  \E i \in 1..Len(image_signatures) : StartsWith(content_start, image_signatures[i])

\* _validate_image_response(response, url).  response.content is read at line 67
\* only; with stream=True that read transfers the body, and raises
\* response.content_error when the transfer fails.
ValidateImageResponse(response) ==
    IF ~ContentTypeOk(response.headers)
    THEN Verdict(NoException, FALSE, "Content-Type is not an image type")
    ELSE IF ContentLengthGiven(response.headers) /\ IntRaises(response.headers[CL])
    THEN Verdict("ValueError", FALSE, "")
    ELSE IF ContentLengthGiven(response.headers) /\ TooLarge(response.headers[CL])
    THEN Verdict(NoException, FALSE, "Image too large (>50MB) - skipping for safety")
    ELSE IF response.content_error # NoException
    THEN Verdict(response.content_error, FALSE, "")
    ELSE IF ~SignatureOk(response.content)
    THEN Verdict(NoException, FALSE, "Content doesn't appear to be a valid image")
    ELSE Verdict(NoException, TRUE, "Valid image")

\* whether validation reaches line 67 and reads the body
ReadsContent(headers) ==
    LET v == ValidateImageResponse([headers |-> headers, content |-> EmptyBody,
                                    content_error |-> "ChunkedEncodingError"])
    IN  v.raised = "ChunkedEncodingError"

-----------------------------------------------------------------------------
(* _check_duplicate, _generate_filename, the storage directory *)

\* _check_duplicate that forgets to record a new hash
CheckDuplicate_NoInsert(hashes, content) ==
    [duplicate |-> MD5(content) \in hashes, hashes |-> hashes]

\* _check_duplicate that assigns the new hash instead of adding it
CheckDuplicate_Replace(hashes, content) ==
    IF MD5(content) \in hashes
    THEN [duplicate |-> TRUE,  hashes |-> hashes]
    ELSE [duplicate |-> FALSE, hashes |-> {MD5(content)}]

\* _check_duplicate(content): the value returned and self.downloaded_hashes afterwards
CheckDuplicate(hashes, content) ==
    IF MD5(content) \in hashes
    THEN [duplicate |-> TRUE,  hashes |-> hashes]
    ELSE [duplicate |-> FALSE, hashes |-> hashes \cup {MD5(content)}]

DefaultContentType == <<"i","m","a","g","e","/","j","p","e","g">>
Www == <<"w","w","w",".">>
Jpg == <<".","j","p","g">>

\* line 87: no file name in the URL, one is synthesised (and time.time() is read)
NeedsSynthesis(url) ==
    LET filename == Basename(UrlPath(url))
    IN  filename = <<>> \/ "." \notin Range(filename)

\* line 99 left out
Sanitize_Nothing(filename) == filename

\* line 99
Sanitize(filename) ==
    SelectSeq(filename, LAMBDA c : IsAlnum(c) \/ c \in {".", "-", "_"})

\* _generate_filename(url, content_type), timestamp being int(time.time())
GenerateFilename(url, content_type, timestamp) ==
    LET filename  == Basename(UrlPath(url))
        guessed   == GuessExtension(SplitFirst(content_type, ";"))
        extension == IF guessed = <<>> THEN Jpg ELSE guessed
        domain    == RemoveAll(UrlNetloc(url), Www)
    IN  IF NeedsSynthesis(url)
        THEN Sanitize(domain \o <<"_">> \o IntToText(timestamp) \o extension)
        ELSE Sanitize(filename)

\* the default of base_dir, and a name the caller passes instead
BaseDirName == <<"F","e","t","c","h","e","d","_","I","m","a","g","e","s">>
CustomDirName == <<"m","y"," ","p","i","c","s">>
Dot == <<".">>
DotDot == <<".", ".">>

\* a file of the storage directory: its path below base_dir, its bytes, and
\* whether this process may open it for reading
File(path, content, readable) ==
    [path |-> path, content |-> content, readable |-> readable]

\* (self.base_dir / filename).exists(), once base_dir exists: "." is base_dir
\* itself, ".." its parent, anything else an entry of base_dir
PathExists(fs, filename) ==
    filename \in {Dot, DotDot} \/ \E f \in fs : f.path[1] = filename

\* (self.base_dir / filename).name: pathlib drops a "." component
PathName(filename) == IF filename = Dot THEN base_dir ELSE filename

\* lines 144-149: the first unused name
RECURSIVE NextFree(_, _, _, _)
NextFree(fs, name, ext, counter) ==
    LET candidate == name \o <<"_">> \o IntToText(counter) \o ext
    IN  IF PathExists(fs, candidate) THEN NextFree(fs, name, ext, counter + 1)
        ELSE candidate

\* the collision search left out
UniqueName_NoSearch(fs, filename) == filename

\* the counter appended after the extension
UniqueName_AfterExtension(fs, filename) ==
    IF PathExists(fs, filename)
    THEN NextFree(fs, PathName(filename), <<>>, 1)
    ELSE filename

UniqueName(fs, filename) ==
    IF PathExists(fs, filename)
    THEN NextFree(fs, Stem(PathName(filename)), Suffix(PathName(filename)), 1)
    ELSE filename

\* lines 152-153: open(filepath, 'wb') truncates or creates, write stores the bytes
WriteFile(fs, filename, content) ==
    {f \in fs : f.path # <<filename>>} \cup {File(<<filename>>, content, TRUE)}

image_extensions ==
    { <<".","j","p","g">>, <<".","j","p","e","g">>, <<".","p","n","g">>,
      <<".","g","i","f">>, <<".","b","m","p">>, <<".","w","e","b","p">>,
      <<".","s","v","g">>, <<".","i","c","o">> }

\* the extension compared as it is spelt
IsImageFile_CaseSensitive(path) == Suffix(path[Len(path)]) \in image_extensions

\* _is_image_file(filepath)
IsImageFile(path) == Lower(Suffix(path[Len(path)])) \in image_extensions

\* _load_existing_hashes(): the index a new instance starts with
LoadExistingHashes(exists, fs) ==
    IF ~exists THEN {}
    ELSE {MD5(f.content) : f \in {g \in fs : IsImageFile(g.path) /\ g.readable}}

-----------------------------------------------------------------------------
(* The inputs the environment supplies *)

\* fetch_image is explored while the storage directory holds fewer files
MaxFiles == 3
MaxFilesValidation == 2

Text_photo  == <<"h","t","t","p",":","/","/","a",".","i","o","/","p",".","j","p","g">>
Text_mirror == <<"h","t","t","p",":","/","/","m",".","a",".","i","o","/","d","/",
                 "p","~",".","j","p","g","?","v","=","1">>

Text_html   == <<"t","e","x","t","/","h","t","m","l">>
Text_jpeg   == <<"i","m","a","g","e","/","j","p","e","g">>
Text_PNG    == <<"I","m","a","g","e","/","P","N","G">>

Text_50MiB  == <<"5","2","4","2","8","8","0","0">>
Text_50MiB1 == <<"5","2","4","2","8","8","0","1">>
Text_abc    == <<"a","b","c">>

Body_jpeg   == [head |-> <<255, 216, 255, 224>>, fill |-> 1996]
Body_png    == [head |-> <<137, 80, 78, 71, 13, 10, 26, 10, 1>>, fill |-> 0]
Body_gif87  == [head |-> <<71, 73, 70, 56, 55, 97, 2>>, fill |-> 0]
Body_gif89  == [head |-> <<71, 73, 70, 56, 57, 97, 2>>, fill |-> 0]
Body_bmp    == [head |-> <<66, 77, 3>>, fill |-> 0]
Body_riff   == [head |-> <<82, 73, 70, 70, 4>>, fill |-> 8]
Body_html   == [head |-> <<60, 104>>, fill |-> 0]
Body_B      == [head |-> <<66>>, fill |-> 0]
Body_jpe    == [head |-> <<255, 216, 0, 255>>, fill |-> 0]
Body_pn     == [head |-> <<137, 80, 78, 71, 13, 10, 26>>, fill |-> 0]
Body_gif88  == [head |-> <<71, 73, 70, 56, 56, 97>>, fill |-> 0]
Body_xjpeg  == [head |-> <<1, 255, 216, 255>>, fill |-> 0]

\* a response's headers: a function from the header names present to their values
Headers(names, content_type, content_length) ==
    [n \in names |-> IF n = CT THEN content_type ELSE content_length]

HeaderSets(content_types, content_lengths) ==
    {Headers({CT, CL}, t, l) : t \in content_types, l \in content_lengths}
    \cup {Headers({CT}, t, <<>>) : t \in content_types}
    \cup {Headers({CL}, <<>>, l) : l \in content_lengths}
    \cup {Headers({}, <<>>, <<>>)}

\* what reading response.content yields: the bytes, or an exception
Transfers(bodies, errors) ==
    {[content |-> b, content_error |-> NoException] : b \in bodies}
    \cup {[content |-> EmptyBody, content_error |-> e] : e \in errors}

\* An environment: the URLs asked for; what session.get and raise_for_status do
\* ("ok", a 2xx response, or the exception raised); the headers and bodies served;
\* what os.makedirs, open and write do ("ok", or the call that raises OSError);
\* the clock
MainEnv ==
    [ max_files  |-> MaxFiles,
      urls       |-> {Text_photo, Text_mirror},
      requests   |-> {"ok", "Timeout", "ConnectTimeout", "ConnectionError",
                      "HTTPError", "TooManyRedirects"},
      headers    |-> { Headers({CT}, Text_jpeg, <<>>),
                       Headers({CT}, Text_html, <<>>),
                       Headers({CT, CL}, Text_jpeg, Text_abc) },
      transfers  |-> Transfers({Body_jpeg, Body_png, Body_gif89, Body_html},
                               {"ChunkedEncodingError"}),
      ios        |-> {"ok", "makedirs", "open", "write"},
      timestamps |-> {1700000000} ]

ValidationEnv ==
    [ max_files  |-> MaxFilesValidation,
      urls       |-> {Text_photo},
      requests   |-> {"ok"},
      headers    |-> HeaderSets({Text_html, Text_jpeg, Text_PNG},
                                {Text_50MiB, Text_50MiB1, Text_abc}),
      transfers  |-> Transfers({Body_jpeg, Body_png, Body_gif87, Body_gif89,
                                Body_bmp, Body_riff, Body_html, Body_B, Body_jpe,
                                Body_pn, Body_gif88, Body_xjpeg, EmptyBody},
                               {"ChunkedEncodingError"}),
      ios        |-> {"ok"},
      timestamps |-> {1700000000} ]

\* the storage directory before the first construction: the default one, not
\* yet created, or a directory of the caller's that already holds files
InitialDisks ==
    { [name |-> BaseDirName, exists |-> FALSE, files |-> {}],
      [name |-> CustomDirName, exists |-> TRUE,
       files  |-> { File(<<<<"p",".","j","p","g">>>>, Body_gif89, TRUE),
                    File(<<<<"p","_","2",".","j","p","g">>>>, Body_png, FALSE),
                    File(<<<<"s">>, <<"q",".","P","N","G">>>>, Body_bmp, TRUE),
                    File(<<<<"s">>, <<"n",".","t","x","t">>>>, Body_jpeg, TRUE) }] }

\* the names in use in base_dir itself, and its regular files
Entries(fs) == {f.path[1] : f \in fs}
TopFiles(fs) == {f \in fs : Len(f.path) = 1}

-----------------------------------------------------------------------------
(* The operations *)

NewCall ==
    [ op            |-> "construct",
      url           |-> <<>>,
      request       |-> "None",
      headers       |-> Headers({}, <<>>, <<>>),
      content_read  |-> FALSE,
      content       |-> EmptyBody,
      content_error |-> NoException,
      io            |-> "None",
      timestamp     |-> 0,
      returned      |-> "None",
      propagated    |-> NoException,
      outcome       |-> "constructed",
      message       |-> "",
      filename      |-> <<>>,
      written       |-> <<>>,
      phases        |-> <<>> ]

\* an exception of class cls raised inside the try block of fetch_image
Raise(c, cls, phases) ==
    IF HandlerOf(cls) = 0
    THEN [c EXCEPT !.propagated = cls, !.outcome = "uncaught", !.phases = phases]
    ELSE [c EXCEPT !.returned = "False", !.outcome = ExceptClauses[HandlerOf(cls)].outcome,
                   !.phases = phases]

Return(c, value, outcome, message, phases) ==
    [c EXCEPT !.returned = value, !.outcome = outcome, !.message = message,
              !.phases = phases]

P_request  == <<"START", "REQUESTING">>
P_validate == P_request \o <<"RECEIVED", "VALIDATING">>
P_dedup    == P_validate \o <<"VALID", "DEDUP_CHECK">>
P_naming   == P_dedup \o <<"UNIQUE", "NAMING">>
P_writing  == P_naming \o <<"WRITING">>

\* lines 138-157: the directory exists; name the file and write it
StoreAs(c, url, headers, content, io, timestamp) ==
    LET content_type == HeaderGet(headers, CT, DefaultContentType)
        filename     == GenerateFilename(url, content_type, timestamp)
        target       == UniqueName(files, filename)
        c1           == [c EXCEPT !.io = io, !.timestamp = timestamp,
                                  !.filename = filename, !.written = target]
    IN  IF io = "open"
        THEN /\ call' = Raise(c1, "PermissionError", P_writing \o <<"IO_FAILED">>)
             /\ UNCHANGED files
        ELSE IF io = "write"
        THEN /\ call' = Raise(c1, "OSError", P_writing \o <<"IO_FAILED">>)
             /\ files' = WriteFile(files, target, EmptyBody)
        ELSE /\ call' = Return(c1, "True", "success", "Successfully fetched",
                               P_writing \o <<"STORED">>)
             /\ files' = WriteFile(files, target, content)

\* lines 135-157: the body is valid and new.  os.makedirs can fail only when the
\* directory is missing; time.time() is read only when a name is synthesised.
Store(E, c, url, headers, content) ==
    \E io \in E.ios :
        IF io = "makedirs"
        THEN /\ ~dir_exists
             /\ call' = Raise([c EXCEPT !.io = io], "PermissionError",
                              P_dedup \o <<"UNIQUE", "IO_FAILED">>)
             /\ UNCHANGED <<dir_exists, files>>
        ELSE /\ dir_exists' = TRUE
             /\ IF NeedsSynthesis(url)
                THEN \E timestamp \in E.timestamps :
                        StoreAs(c, url, headers, content, io, timestamp)
                ELSE StoreAs(c, url, headers, content, io, 0)

\* lines 121-157, given the response and what reading its body yields
Validate(E, c, url, response) ==
    LET v == ValidateImageResponse(response)
        d == CheckDuplicate(downloaded_hashes, response.content)
    IN  IF v.raised # NoException
        THEN /\ call' = Raise(c, v.raised, P_validate \o <<"ERROR">>)
             /\ UNCHANGED <<dir_exists, files, downloaded_hashes, checked>>
        ELSE IF ~v.valid
        THEN /\ call' = Return(c, "False", "validation-rejected", v.message,
                               P_validate \o <<"REJECTED">>)
             /\ UNCHANGED <<dir_exists, files, downloaded_hashes, checked>>
        ELSE /\ checked' = checked \cup {response.content}
             /\ downloaded_hashes' = d.hashes
             /\ IF d.duplicate
                THEN /\ call' = Return(c, "False", "duplicate-skipped",
                                       "Duplicate image detected",
                                       P_dedup \o <<"DUPLICATE">>)
                     /\ UNCHANGED <<dir_exists, files>>
                ELSE Store(E, c, url, response.headers, response.content)

\* fetch_image(url) in an environment E
FetchImage(E) ==
    /\ Cardinality(TopFiles(files)) < E.max_files
    /\ UNCHANGED base_dir
    /\ \E url \in E.urls, request \in E.requests :
        LET c0 == [NewCall EXCEPT !.op = "fetch_image", !.url = url, !.request = request]
        IN  IF request # "ok"
            THEN /\ call' = Raise(c0, request, P_request \o <<"REQUEST_FAILED">>)
                 /\ UNCHANGED <<dir_exists, files, downloaded_hashes, checked>>
            ELSE \E headers \in E.headers :
                    IF ~ReadsContent(headers)
                    THEN Validate(E, [c0 EXCEPT !.headers = headers], url,
                                  [headers |-> headers, content |-> EmptyBody,
                                   content_error |-> NoException])
                    ELSE \E t \in E.transfers :
                            Validate(E, [c0 EXCEPT !.headers = headers,
                                                   !.content_read = TRUE,
                                                   !.content = t.content,
                                                   !.content_error = t.content_error],
                                     url,
                                     [headers |-> headers, content |-> t.content,
                                      content_error |-> t.content_error])

\* a constructor that also creates the storage directory
Construct_Mkdir ==
    /\ downloaded_hashes' = LoadExistingHashes(dir_exists, files)
    /\ checked' = {}
    /\ call' = NewCall
    /\ dir_exists' = TRUE
    /\ UNCHANGED <<base_dir, files>>

\* UbuntuImageFetcher(base_dir): a new instance over the directory as it is
Construct ==
    /\ downloaded_hashes' = LoadExistingHashes(dir_exists, files)
    /\ checked' = {}
    /\ call' = NewCall
    /\ UNCHANGED <<base_dir, dir_exists, files>>

Init ==
    \E disk \in InitialDisks :
        /\ base_dir = disk.name
        /\ dir_exists = disk.exists
        /\ files = disk.files
        /\ downloaded_hashes = LoadExistingHashes(disk.exists, disk.files)
        /\ checked = {}
        /\ call = NewCall

Fetch == FetchImage(MainEnv)

Next == Fetch \/ Construct

Spec == Init /\ [][Next]_vars

FetchValidation == FetchImage(ValidationEnv)

NextValidation == FetchValidation \/ Construct

SpecValidation == Init /\ [][NextValidation]_vars

-----------------------------------------------------------------------------
(* What the properties below read off a step or a state *)

\* the step is a fetch_image call
FetchStep == call'.op = "fetch_image"

\* the response a call received
ResponseOf(c) ==
    [headers |-> c.headers, content |-> c.content, content_error |-> c.content_error]

\* the call got a 2xx response, read its body and validation accepted it, so the
\* body reached _check_duplicate
ReachedDuplicateCheck(c) ==
    /\ c.request = "ok"
    /\ c.content_read
    /\ ValidateImageResponse(ResponseOf(c)).valid

\* the i-th byte of a body, and whether the body begins with the bytes sig
ByteAt(content, i) == IF i <= Len(content.head) THEN content.head[i] ELSE 0

BeginsWith(content, sig) ==
    /\ BodySize(content) >= Len(sig)
    /\ \A i \in 1..Len(sig) : ByteAt(content, i) = sig[i]

HasKnownSignature(content) ==
    \/ BeginsWith(content, <<255, 216, 255>>)
    \/ BeginsWith(content, <<137, 80, 78, 71, 13, 10, 26, 10>>)
    \/ BeginsWith(content, <<71, 73, 70, 56, 55, 97>>)
    \/ BeginsWith(content, <<71, 73, 70, 56, 57, 97>>)
    \/ BeginsWith(content, <<66, 77>>)
    \/ BeginsWith(content, <<82, 73, 70, 70>>)

\* the content-type header is there and begins with "image/" in any letter case
DeclaresImage(headers) ==
    /\ CT \in DOMAIN headers
    /\ Len(headers[CT]) >= 6
    /\ \A i \in 1..6 : LowerChar(headers[CT][i]) = ImagePrefix[i]

\* the content-length header is there and is a number
DeclaresLength(headers) ==
    CL \in DOMAIN headers /\ ~IntRaises(headers[CL])

\* nothing on disk and nothing in the index changes in the step
DiskUnchanged == dir_exists' = dir_exists /\ files' = files
IndexUnchanged == downloaded_hashes' = downloaded_hashes

\* the call reached os.makedirs, and the call reached open()
ReachedMakedirs(c) == c.io # "None"
ReachedOpen(c) == c.io \in {"ok", "open", "write"}

\* name_k ext, the k-th candidate of the collision search for a derived name
Candidate(filename, k) ==
    Stem(filename) \o <<"_">> \o IntToText(k) \o Suffix(filename)

-----------------------------------------------------------------------------
(* C1 *)

\* C1: within one instance, a fetch whose body is byte-identical to a body that
\* an earlier fetch of the instance brought to the duplicate check is reported as
\* a duplicate: it returns False and no file is written, so the number of files
\* does not grow.
C1_SecondFetchIsDuplicate ==
    [][ (FetchStep /\ ReachedDuplicateCheck(call') /\ call'.content \in checked)
            => /\ call'.returned = "False"
               /\ call'.outcome = "duplicate-skipped"
               /\ files' = files
               /\ Cardinality(files') = Cardinality(files) ]_vars

\* a duplicate reported for a URL whose bytes no file on disk holds: only the
\* earlier call of this instance (whose write failed) can have put the hash there
C1_Witness ==
    /\ call.op = "fetch_image"
    /\ call.outcome = "duplicate-skipped"
    /\ call.url = Text_mirror
    /\ call.content = Body_jpeg
    /\ \A f \in files : f.content # Body_jpeg

(* C2 *)

\* C2: a 2xx response whose content-type is absent or does not begin with
\* "image/" (in any letter case) is rejected by validation whatever its
\* content-length: the call returns False, writes no file and adds no hash.
C2_NonImageTypeRejected ==
    [][ (FetchStep /\ call'.request = "ok" /\ ~DeclaresImage(call'.headers))
            => /\ call'.returned = "False"
               /\ call'.outcome = "validation-rejected"
               /\ ~call'.content_read
               /\ DiskUnchanged
               /\ IndexUnchanged ]_vars

\* no content-type at all, and a content-length that is not even a number
C2_Witness ==
    /\ call.op = "fetch_image"
    /\ call.request = "ok"
    /\ DOMAIN call.headers = {CL}
    /\ call.headers[CL] = Text_abc
    /\ call.outcome = "validation-rejected"

(* C3 *)

\* C3: for a response that declares an image type and no content-length or one of
\* at most 50 MiB, and whose body arrives, validation accepts exactly the bodies
\* that begin with FF D8 FF, 89 50 4E 47 0D 0A 1A 0A, GIF87a, GIF89a, BM or RIFF;
\* any other body is rejected and nothing is stored.
C3_SignatureDecides ==
    [][ (/\ FetchStep
         /\ call'.request = "ok"
         /\ DeclaresImage(call'.headers)
         /\ (CL \in DOMAIN call'.headers
                => DeclaresLength(call'.headers)
                   /\ IntValue(call'.headers[CL]) <= 52428800)
         /\ call'.content_error = NoException)
            => /\ call'.content_read
               /\ HasKnownSignature(call'.content)
                    => /\ call'.outcome # "validation-rejected"
                       /\ call'.content \in checked'
                       /\ MD5(call'.content) \in downloaded_hashes'
               /\ ~HasKnownSignature(call'.content)
                    => /\ call'.outcome = "validation-rejected"
                       /\ call'.returned = "False"
                       /\ call'.content \notin checked'
                       /\ DiskUnchanged
                       /\ IndexUnchanged ]_vars

\* the one-byte body "B", shorter than every signature, served as Image/PNG with a
\* content-length of exactly 50 MiB
C3_Witness ==
    /\ call.op = "fetch_image"
    /\ call.headers = Headers({CT, CL}, Text_PNG, Text_50MiB)
    /\ call.content_read
    /\ call.content = Body_B
    /\ call.outcome = "validation-rejected"

(* C4 *)

\* C4: a response that declares a content-length above 50 MiB makes the call
\* return False with no file created and no hash added; a declared length of
\* exactly 50 MiB is not rejected by the size check.
C4_OversizeRejected ==
    [][ (FetchStep /\ call'.request = "ok" /\ DeclaresLength(call'.headers))
            => /\ IntValue(call'.headers[CL]) > 50 * 1024 * 1024
                    => /\ call'.returned = "False"
                       /\ ~call'.content_read
                       /\ DiskUnchanged
                       /\ IndexUnchanged
               /\ (IntValue(call'.headers[CL]) = 50 * 1024 * 1024
                   /\ DeclaresImage(call'.headers))
                    => /\ call'.content_read
                       /\ call'.message
                             # "Image too large (>50MB) - skipping for safety" ]_vars

\* an image type declaring one byte more than 50 MiB, rejected by the size check
C4_Witness ==
    /\ call.op = "fetch_image"
    /\ call.headers = Headers({CT, CL}, Text_jpeg, Text_50MiB1)
    /\ call.returned = "False"
    /\ call.message = "Image too large (>50MB) - skipping for safety"

(* C5 *)

\* C5: fetch_image never lets an exception reach its caller: whatever fails
\* (the request, validation, the duplicate check, os.makedirs, open or write) the
\* call returns False, it returns True only on success, and a further
\* fetch_image call can be made.
C5_NeverPropagates ==
    call.op = "fetch_image"
        => /\ call.propagated = NoException
           /\ call.returned \in {"True", "False"}
           /\ (call.outcome # "success" => call.returned = "False")
           /\ (call.outcome = "success" => call.returned = "True")
           /\ (Cardinality(TopFiles(files)) < MaxFiles => ENABLED Fetch)

\* the write itself failed (OSError, caught by the last clause)
C5_Witness ==
    /\ call.op = "fetch_image"
    /\ call.io = "write"
    /\ call.outcome = "unexpected-error"
    /\ call.returned = "False"

(* C6 *)

\* C6: constructing a fetcher leaves the storage directory as it is (a missing
\* directory stays missing); a fetch_image call that ends in a request failure,
\* a validation rejection or a duplicate leaves the hash index and the disk as
\* they are; and a step that creates the directory or touches a file is a fetch
\* whose body passed validation and was not a duplicate.
C6_FailedFetchChangesNothing ==
    [][ /\ call'.op = "construct" => DiskUnchanged
        /\ (FetchStep /\ call'.outcome \in {"timeout", "connection-error", "http-error",
                                            "generic-request-error",
                                            "validation-rejected", "duplicate-skipped"})
              => DiskUnchanged /\ IndexUnchanged
        /\ ~DiskUnchanged
              => /\ FetchStep
                 /\ ReachedMakedirs(call')
        /\ (FetchStep /\ ReachedMakedirs(call'))
              => /\ ReachedDuplicateCheck(call')
                 /\ MD5(call'.content) \notin downloaded_hashes ]_vars

\* a timeout with the storage directory missing: it is still missing
C6_Witness ==
    /\ call.op = "fetch_image"
    /\ call.outcome = "timeout"
    /\ ~dir_exists
    /\ files = {}

(* C7 *)

\* C7: no fetch_image call overwrites a file: the name opened for writing was
\* not in use in the storage directory before the call, and every file that was
\* there before the call is there, with the same bytes, after it.
C7_NoOverwrite ==
    [][ FetchStep
            => /\ \A f \in files : f \in files'
               /\ ReachedOpen(call')
                    => /\ call'.written \notin Entries(files)
                       /\ call'.written \notin {Dot, DotDot} ]_vars

\* a file stored under another name than the derived one, which was taken
C7_Witness ==
    /\ call.op = "fetch_image"
    /\ call.outcome = "success"
    /\ call.written # call.filename
    /\ \E f \in files : f.path = <<call.filename>> /\ f.content # call.content

(* C8 *)

\* C8: the collision search is first-fit before the extension: a derived name
\* stem.ext that is unused is taken unchanged; otherwise the file goes to
\* stem_k.ext for the smallest k >= 1 whose name is unused.
C8_FirstFit ==
    [][ (FetchStep /\ ReachedOpen(call'))
            => LET filename == call'.filename
                   written  == call'.written
               IN  /\ filename \notin Entries(files) => written = filename
                   /\ filename \in Entries(files)
                        => \E k \in 1..(Cardinality(files) + 1) :
                              /\ written = Candidate(filename, k)
                              /\ written \notin Entries(files)
                              /\ \A j \in 1..(k - 1) :
                                    Candidate(filename, j) \in Entries(files) ]_vars

\* two different images that derive the name p.jpg, in a directory that was
\* empty: the second is stored as p_1.jpg
C8_Witness ==
    /\ call.op = "fetch_image"
    /\ call.outcome = "success"
    /\ call.filename = <<"p",".","j","p","g">>
    /\ call.written = <<"p","_","1",".","j","p","g">>
    /\ Cardinality(files) = 2
    /\ \E f, g \in files :
          /\ f.path = <<call.filename>>
          /\ g.path = <<call.written>>
          /\ g.content = call.content
          /\ f.content # g.content
          /\ HasKnownSignature(f.content)

(* C9 *)

\* the last path segment of the URL with every character dropped that is not
\* alphanumeric, ".", "-" or "_"
KeptCharacters ==
    Range(LowerLetters) \cup Range(UpperLetters) \cup Range(Digits) \cup {".", "-", "_"}

SegmentName(url) ==
    SelectSeq(Basename(UrlPath(url)), LAMBDA c : c \in KeptCharacters)

\* the case C9 is about: a body that passed validation and is no duplicate, for
\* a URL whose last path segment is not empty and holds a "."
C9_Case ==
    /\ FetchStep
    /\ ReachedDuplicateCheck(call')
    /\ MD5(call'.content) \notin downloaded_hashes
    /\ Basename(UrlPath(call'.url)) # <<>>
    /\ "." \in Range(Basename(UrlPath(call'.url)))

\* C9 as claimed: such a fetch returns True and leaves a file named by the
\* sanitised last path segment that holds exactly the body, its hash indexed.
C9_Original ==
    [][ C9_Case
            => /\ call'.returned = "True"
               /\ File(<<SegmentName(call'.url)>>, call'.content, TRUE) \in files'
               /\ MD5(call'.content) \in downloaded_hashes' ]_vars

\* C9, amended: such a fetch indexes the hash of the body; if os.makedirs, open
\* and write all succeed (and the sanitised segment is not "." or "..") it
\* returns True and leaves a file that holds exactly the body, named by the
\* sanitised last path segment when that name was unused and by that name with
\* _k (k >= 1) before the extension when it was taken; if one of them fails it
\* returns False.
C9_StoredUnderSegmentOrSuffixed ==
    [][ C9_Case
            => /\ MD5(call'.content) \in downloaded_hashes'
               /\ (call'.io = "ok" /\ SegmentName(call'.url) \notin {Dot, DotDot})
                    => /\ call'.returned = "True"
                       /\ File(<<call'.written>>, call'.content, TRUE) \in files'
                       /\ SegmentName(call'.url) \notin Entries(files)
                            => call'.written = SegmentName(call'.url)
                       /\ SegmentName(call'.url) \in Entries(files)
                            => \E k \in 1..(Cardinality(files) + 1) :
                                  call'.written = Candidate(SegmentName(call'.url), k)
               /\ call'.io # "ok" => call'.returned = "False" ]_vars

\* the URL .../d/p~.jpg?v=1 stored as p.jpg in a directory that was missing
C9_Witness ==
    /\ call.op = "fetch_image"
    /\ call.url = Text_mirror
    /\ call.returned = "True"
    /\ files = {File(<<<<"p",".","j","p","g">>>>, call.content, TRUE)}
    /\ MD5(call.content) \in downloaded_hashes

(* C10 *)

\* C10: a fetch_image call, whatever its outcome, never removes an entry of the
\* hash index: the index after the call contains the index before it.
C10_IndexOnlyGrows ==
    [][ FetchStep => downloaded_hashes \subseteq downloaded_hashes' ]_vars

\* the index holds two hashes that no file on disk accounts for: both were added
\* by calls whose open() then failed, the second keeping the first
C10_Witness ==
    /\ call.op = "fetch_image"
    /\ call.io = "open"
    /\ files = {}
    /\ {MD5(Body_jpeg), MD5(Body_png)} \subseteq downloaded_hashes

-----------------------------------------------------------------------------
(* Restarts: the index a new instance rebuilds, and what it then stores *)

MaxFilesRestart == 3

Text_script == <<"h","t","t","p",":","/","/","a",".","i","o","/","i",".","p","h","p">>
Text_2000   == <<"2","0","0","0">>

\* a JPEG of 50 MiB and three bytes
Body_huge   == [head |-> <<255, 216, 255>>, fill |-> MaxImageBytes]

\* servers that answer 2xx with an image type and either no content-length (a
\* chunked reply) or the length of the compressed transfer (the session asks for
\* gzip, line 28), and a disk whose write can fail
RestartEnv ==
    [ max_files  |-> MaxFilesRestart,
      urls       |-> {Text_photo, Text_script},
      requests   |-> {"ok"},
      headers    |-> { Headers({CT}, Text_jpeg, <<>>),
                       Headers({CT, CL}, Text_jpeg, Text_2000) },
      transfers  |-> Transfers({Body_jpeg, Body_png, Body_huge}, {}),
      ios        |-> {"ok", "write"},
      timestamps |-> {1700000000} ]

\* _load_existing_hashes() run once more on the instance: lines 33-45 only add
LoadAgain ==
    /\ downloaded_hashes' = downloaded_hashes \cup LoadExistingHashes(dir_exists, files)
    /\ call' = [NewCall EXCEPT !.op = "_load_existing_hashes", !.outcome = "loaded"]
    /\ UNCHANGED <<base_dir, dir_exists, files, checked>>

FetchRestart == FetchImage(RestartEnv)

NextRestart == FetchRestart \/ Construct \/ LoadAgain

SpecRestart == Init /\ [][NextRestart]_vars

(* C11 *)

\* the allow-list of extensions, without the dot and in lower case
AllowList ==
    { <<"j","p","g">>, <<"j","p","e","g">>, <<"p","n","g">>, <<"g","i","f">>,
      <<"b","m","p">>, <<"w","e","b","p">>, <<"s","v","g">>, <<"i","c","o">> }

\* the file name ends, after at least one other character, in "." and the
\* extension e in any letter case
EndsInExtension(name, e) ==
    /\ Len(name) > Len(e) + 1
    /\ name[Len(name) - Len(e)] = "."
    /\ \A i \in 1..Len(e) : LowerChar(name[Len(name) - Len(e) + i]) = e[i]

\* the content hashes of the readable files anywhere under the storage directory
\* whose extension is in the allow-list
IndexedOnDisk(exists, fs) ==
    { MD5(f.content) :
        f \in { g \in fs : /\ exists
                           /\ g.readable
                           /\ \E e \in AllowList :
                                 EndsInExtension(g.path[Len(g.path)], e) } }

\* the step runs the bootstrap: a construction, or a further run on the instance
BootstrapStep == call'.op \in {"construct", "_load_existing_hashes"}

\* C11: the bootstrap is idempotent and deterministic.  A construction yields
\* exactly the content hashes of the readable allow-listed files under the
\* directory (any depth, extension in any letter case), and the empty set for a
\* missing directory; it raises nothing and leaves the disk alone; a further run
\* on the instance adds exactly that set to the index, so a run that directly
\* follows another run over the unchanged directory changes nothing.
C11_BootstrapIdempotent ==
    [][ BootstrapStep
            => /\ DiskUnchanged
               /\ call'.propagated = NoException
               /\ call'.op = "construct"
                    => /\ downloaded_hashes' = IndexedOnDisk(dir_exists, files)
                       /\ ~dir_exists => downloaded_hashes' = {}
               /\ call'.op = "_load_existing_hashes"
                    => downloaded_hashes'
                         = downloaded_hashes \cup IndexedOnDisk(dir_exists, files)
               /\ (/\ call.op \in {"construct", "_load_existing_hashes"}
                   /\ (call'.op = "_load_existing_hashes" \/ call.op = "construct"))
                    => downloaded_hashes' = downloaded_hashes ]_vars

\* a second run on an instance constructed over a directory that holds an
\* unreadable image, an upper-case extension in a subdirectory, a text file and a
\* file stored under a name outside the allow-list: the index is that of the two
\* readable allow-listed files (p.jpg and s/q.PNG)
C11_Witness ==
    /\ call.op = "_load_existing_hashes"
    /\ dir_exists
    /\ \E f \in files : f.path = << <<"i",".","p","h","p">> >> /\ f.content = Body_jpeg
    /\ \E f \in files : f.path = << <<"s">>, <<"q",".","P","N","G">> >>
    /\ downloaded_hashes = {MD5(Body_gif89), MD5(Body_bmp)}

(* C12 *)

\* C12: across a restart the index holds the hash of every stored image.  A
\* fetcher constructed right after a fetch_image call that stored a file has that
\* file's content hash in its index; and a fetch whose validated body is
\* byte-identical to a readable file in the storage directory is reported as a
\* duplicate and writes nothing.
C12_RestartKeepsStoredImages ==
    [][ /\ (/\ call.op = "fetch_image"
            /\ call.returned = "True"
            /\ call'.op = "construct")
              => /\ File(<<call.written>>, call.content, TRUE) \in files'
                 /\ MD5(call.content) \in downloaded_hashes'
        /\ (/\ FetchStep
            /\ ReachedDuplicateCheck(call')
            /\ \E f \in TopFiles(files) : f.readable /\ f.content = call'.content)
              => /\ call'.outcome = "duplicate-skipped"
                 /\ call'.returned = "False"
                 /\ files' = files ]_vars

(* C13 *)

\* C13: every hash in the index is the content hash of some file that exists
\* under the storage directory, in every reachable state, also after a fetch
\* whose os.makedirs, open or write failed.
C13_IndexedHashesAreOnDisk ==
    \A h \in downloaded_hashes : \E f \in files : MD5(f.content) = h

(* C14 *)

\* the first check a response fails: 1 content-type, 2 content-length,
\* 3 signature, 0 when it passes all three; 4 for an image type with a
\* content-length that is not a number, where only a verdict is required
FirstFailingCheck(c) ==
    IF ~DeclaresImage(c.headers) THEN 1
    ELSE IF CL \in DOMAIN c.headers /\ ~DeclaresLength(c.headers) THEN 4
    ELSE IF CL \in DOMAIN c.headers /\ IntValue(c.headers[CL]) > 52428800 THEN 2
    ELSE IF ~HasKnownSignature(c.content) THEN 3
    ELSE 0

\* C14: validation is total, ordered and short-circuiting and never raises.  For
\* every 2xx response whose body can be read (any content-type, any
\* content-length text, numeric or not, any body) the call ends with a validation
\* verdict, never in an except clause entered from validation; a rejection
\* carries the reason of the first check that fails, in the order content-type,
\* content-length, signature; and the body is read only when the first two
\* checks pass.
C14_ValidationTotalOrdered ==
    [][ (FetchStep /\ call'.request = "ok" /\ call'.content_error = NoException)
            => /\ call'.outcome \in {"validation-rejected", "duplicate-skipped",
                                     "success"}
               /\ FirstFailingCheck(call') = 1
                    => /\ call'.message = "Content-Type is not an image type"
                       /\ ~call'.content_read
               /\ FirstFailingCheck(call') = 2
                    => /\ call'.message
                             = "Image too large (>50MB) - skipping for safety"
                       /\ ~call'.content_read
               /\ FirstFailingCheck(call') = 3
                    => /\ call'.message = "Content doesn't appear to be a valid image"
                       /\ call'.content_read
               /\ FirstFailingCheck(call') = 0
                    => call'.outcome # "validation-rejected" ]_vars

(* C15 *)

\* the per-fetch state machine: the stages in order, and the terminal state that
\* may follow the first k of them
Stages ==
    <<"START", "REQUESTING", "RECEIVED", "VALIDATING", "VALID", "DEDUP_CHECK",
      "UNIQUE", "NAMING", "WRITING">>

Terminals == {"REQUEST_FAILED", "REJECTED", "DUPLICATE", "IO_FAILED", "STORED"}

TerminalAfter(k) ==
    CASE k = 2 -> {"REQUEST_FAILED"}
      [] k = 4 -> {"REJECTED", "ERROR"}
      [] k = 6 -> {"DUPLICATE"}
      [] k = 7 -> {"IO_FAILED"}
      [] k = 9 -> {"IO_FAILED", "STORED"}
      [] OTHER -> {}

\* C15: every fetch_image call ends in exactly one of REQUEST_FAILED, REJECTED,
\* DUPLICATE, IO_FAILED and STORED, reached along START, REQUESTING, RECEIVED,
\* VALIDATING, VALID, DEDUP_CHECK, UNIQUE, NAMING, WRITING (a failing os.makedirs
\* counts as IO_FAILED after UNIQUE, an exception raised while validating as a
\* rejection); it returns True exactly when it ends in
\* STORED, and that is exactly when the storage directory has a file it did not
\* have before.
C15_OneTerminalState ==
    [][ FetchStep
            => /\ \E k \in 1..Len(Stages) :
                    /\ Len(call'.phases) = k + 1
                    /\ \A i \in 1..k : call'.phases[i] = Stages[i]
                    /\ call'.phases[k + 1] \in TerminalAfter(k)
               /\ call'.returned \in {"True", "False"}
               /\ call'.returned = "True"
                    <=> call'.phases[Len(call'.phases)] = "STORED"
               /\ call'.returned = "True"
                    <=> Entries(files') # Entries(files) ]_vars

(* C16 *)

\* C16: no file written by fetch_image is larger than 50 MiB, whatever the
\* response declared: this covers a response with no content-length header and
\* one whose content-length is smaller than the body that arrives.
C16_StoredBodyBounded ==
    [][ FetchStep
            => \A f \in files' \ files : BodySize(f.content) <= 50 * 1024 * 1024 ]_vars

-----------------------------------------------------------------------------
(* Names: what _generate_filename and the collision search make of a URL *)

MaxFilesNames == 3

Text_root    == <<"h","t","t","p",":","/","/","w","w","w",".","a",".","i","o","/">>
Text_port    == <<"h","t","t","p",":","/","/","u","@","a","w","w","w",".","a",".",
                  "i","o",":","8","0","/","d">>
Text_dot     == <<"h","t","t","p",":","/","/","a",".","i","o","/",".">>
Text_dotdot  == <<"h","t","t","p",":","/","/","a",".","i","o","/","d","/",".",".">>
Text_encoded == <<"h","t","t","p",":","/","/","a",".","i","o","/","a","%","2","F",
                  ".","b">>

Text_PNG_a   == <<"I","m","a","g","e","/","P","N","G",";","a">>
Text_image_x == <<"i","m","a","g","e","/","x">>

NamesEnv ==
    [ max_files  |-> MaxFilesNames,
      urls       |-> {Text_root, Text_port, Text_dot, Text_dotdot, Text_encoded},
      requests   |-> {"ok"},
      headers    |-> { Headers({CT}, Text_jpeg, <<>>),
                       Headers({CT}, Text_PNG_a, <<>>),
                       Headers({CT}, Text_image_x, <<>>) },
      transfers  |-> Transfers({Body_jpeg, Body_png}, {}),
      ios        |-> {"ok"},
      timestamps |-> {1700000000, 1700000001} ]

FetchNames == FetchImage(NamesEnv)

NextNames == FetchNames \/ Construct

SpecNames == Init /\ [][NextNames]_vars

(* C17 *)

\* the host of a URL: what stands between "//" and the first "/", "?" or "#",
\* without user-info (up to the last "@") and without the port (from ":")
HostOf(url) ==
    LET authority == UrlNetloc(url)
        hostport  == Drop(authority, RFind(authority, "@"))
    IN  SplitFirst(hostport, ":")

\* the host with a leading "www." stripped and nothing else
DomainOf(url) ==
    IF StartsWith(HostOf(url), Www) THEN Drop(HostOf(url), Len(Www)) ELSE HostOf(url)

\* the extension the MIME table gives for the content-type before any ";", or
\* ".jpg" when it gives none
ExtensionOf(content_type) ==
    LET e == GuessExtension(SplitFirst(content_type, ";"))
    IN  IF e = <<>> THEN <<".","j","p","g">> ELSE e

\* C17: when the URL's last path segment is empty or holds no ".", the derived
\* file name is domain "_" seconds extension, where domain is the URL's host
\* (no port, no user-info) with only a leading "www." stripped, seconds the
\* clock reading, and extension the MIME mapping of the content-type before any
\* ";" or ".jpg" when there is none.
C17_SynthesisedName ==
    [][ (/\ FetchStep
         /\ ReachedOpen(call')
         /\ LET segment == Basename(UrlPath(call'.url))
            IN  segment = <<>> \/ "." \notin Range(segment))
            => call'.filename
                 = DomainOf(call'.url) \o <<"_">> \o IntToText(call'.timestamp)
                     \o ExtensionOf(call'.headers[CT]) ]_vars

(* C18 *)

\* C18: whatever the URL and the content-type, the name of the file that
\* fetch_image opens for writing is not empty, is made of alphanumerics, ".",
\* "-" and "_" only, also when the collision search chose it, and names a
\* direct child of the storage directory: every file the call adds lies in the
\* storage directory itself under that name, which is neither "." nor "..".
C18_WrittenNameSafe ==
    [][ (FetchStep /\ ReachedOpen(call'))
            => /\ call'.written # <<>>
               /\ \A i \in 1..Len(call'.written) : call'.written[i] \in KeptCharacters
               /\ call'.written \notin {Dot, DotDot}
               /\ \A f \in files' \ files : f.path = <<call'.written>> ]_vars

====
